---- MODULE Spec2Model ----
(***************************************************************************)
(* The in-memory book store of src/index.ts and its GraphQL resolvers:     *)
(* Query.getBook, Book.author, Mutation.addBook, Mutation.updateBook and   *)
(* Mutation.deleteBook, each running to completion over the shared array   *)
(* `books`.                                                                *)
(*                                                                         *)
(* JavaScript values are tagged records, so that `===` is TLA+ equality    *)
(* and truthiness is computed as JavaScript computes it: a property that   *)
(* is missing from an object reads as `undefined`.                         *)
(***************************************************************************)
EXTENDS Integers, Sequences, FiniteSets, TLC

VARIABLES
  books,    \* the module-level array `books`
  issued,   \* the values uuid() has returned so far
  call,     \* the resolver invocation handled last: [op, args]
  result,   \* what that invocation returned or threw
  before    \* `books` as it was when that invocation started

vars == <<books, issued, call, result, before>>

----------------------------------------------------------------------------
(* JavaScript values *)

undefined == [type |-> "undefined"]
null == [type |-> "null"]
Str(s) == [type |-> "string", val |-> s]
Num(n) == [type |-> "number", val |-> n]

\* variant: "was it supplied" in place of ToBoolean
TruthyIfSupplied(v) == v.type # "undefined"

\* ToBoolean, as used by the conditional operator `a ? b : c`
Truthy(v) ==
  CASE v.type = "string" -> v.val # ""
    [] v.type = "number" -> v.val # 0
    [] OTHER -> FALSE

\* what a resolver invocation produces: a returned value or a thrown GraphQLError
Return(v) == [threw |-> FALSE, value |-> v]
Throw(c) == [threw |-> TRUE, code |-> c]

\* the scalar fields of a stored book other than id
Fields ==
  {"title", "description", "isbn", "publisher", "genre", "publishYear",
   "authorName", "authorNationality"}

----------------------------------------------------------------------------
(* Bounds and input domains *)

\* how many times uuid() may be called in one behaviour
MaxUuid == 1

\* the values uuid() may draw from
UuidPool == {Str("uuid-1"), Str("uuid-2")}

\* the seeded array
SeedBooks ==
  << [id |-> Str("d26fd654-f4d4-4b98-91e5-6d8c9569aed6"),
      title |-> Str("The Awakening"),
      description |-> Str("The Awakening es una novela"),
      isbn |-> undefined,
      publisher |-> Str("W W Norton & Co Inc"),
      genre |-> Str("NONE"),
      publishYear |-> Num(1899),
      authorName |-> Str("Kate Chopin"),
      authorNationality |-> undefined],
     [id |-> Str("35b19ead-3aa9-415e-a46d-6621e1604119"),
      title |-> Str("City of Glass"),
      description |-> Str("Ciudad de cristal es el tercer libro"),
      isbn |-> Str("978-0140097313"),
      publisher |-> Str("Simon & Schuster"),
      genre |-> Str("FANTASY"),
      publishYear |-> Num(2009),
      authorName |-> Str("Paul Auster"),
      authorNationality |-> Str("Estadounidense")] >>

SeedIds == {SeedBooks[i].id : i \in 1..Len(SeedBooks)}

----------------------------------------------------------------------------
(* Array helpers, 0-based as in JavaScript *)

\* books.find(book => book.id === id)
findById(bs, id) ==
  IF \E i \in 1..Len(bs) : bs[i].id = id
    THEN bs[CHOOSE i \in 1..Len(bs) :
              /\ bs[i].id = id
              /\ \A j \in 1..(i - 1) : bs[j].id # id]
    ELSE undefined

\* books.find(book => book.title === title)
findByTitle(bs, title) ==
  IF \E i \in 1..Len(bs) : bs[i].title = title
    THEN bs[CHOOSE i \in 1..Len(bs) :
              /\ bs[i].title = title
              /\ \A j \in 1..(i - 1) : bs[j].title # title]
    ELSE undefined

\* books.findIndex(book => book.id === id)
findIndexById(bs, id) ==
  IF \E i \in 1..Len(bs) : bs[i].id = id
    THEN (CHOOSE i \in 1..Len(bs) :
              /\ bs[i].id = id
              /\ \A j \in 1..(i - 1) : bs[j].id # id) - 1
    ELSE -1

\* variant: splice(index), which removes through the end of the array
spliceRest(bs, index) == SubSeq(bs, 1, index)

\* the array after books.splice(index, 1), index >= 0
splice1(bs, index) ==
  SubSeq(bs, 1, index) \o SubSeq(bs, index + 2, Len(bs))

\* the array after books[index] = value
setAt(bs, index, value) == [bs EXCEPT ![index + 1] = value]

----------------------------------------------------------------------------
(* The resolvers, as functions from the array and the arguments to the     *)
(* array afterwards and the outcome of the invocation                      *)

\* uuid(): a version-4 identifier, taken never to repeat a value it has
\* returned nor to hit a seeded id; the set of values it may return next
uuid(used) == UuidPool \ (used \cup SeedIds)

\* Query.getBook
getBook(bs, args) == findById(bs, args.id)

\* Query.getBooksCount
getBooksCount(bs) == Len(bs)

\* Book.author
author(root) ==
  [name |-> root.authorName, nationality |-> root.authorNationality]

\* variant: isbn filled from the description
NewBookIsbnSlip(args, newId) ==
  [id |-> newId,
   title |-> args.title,
   description |-> args.description,
   isbn |-> args.description,
   publisher |-> args.publisher,
   genre |-> args.genre,
   publishYear |-> args.publishYear,
   authorName |-> args.authorName,
   authorNationality |-> args.authorNationality]

\* { ...args, id: uuid() }
NewBook(args, newId) ==
  [id |-> newId,
   title |-> args.title,
   description |-> args.description,
   isbn |-> args.isbn,
   publisher |-> args.publisher,
   genre |-> args.genre,
   publishYear |-> args.publishYear,
   authorName |-> args.authorName,
   authorNationality |-> args.authorNationality]

\* variant: the record is pushed before the title check
addBookPushFirst(bs, args, newId) ==
  IF findByTitle(bs, args.title) # undefined
    THEN [books |-> Append(bs, NewBook(args, newId)),
          result |-> Throw("BAD_USER_INPUT")]
    ELSE [books |-> Append(bs, NewBook(args, newId)),
          result |-> Return(NewBook(args, newId))]

\* variant: no title check
addBookNoCheck(bs, args, newId) ==
  [books |-> Append(bs, NewBook(args, newId)),
   result |-> Return(NewBook(args, newId))]

\* Mutation.addBook; newId is the value uuid() returns if it is called
addBook(bs, args, newId) ==
  IF findByTitle(bs, args.title) # undefined
    THEN [books |-> bs, result |-> Throw("BAD_USER_INPUT")]
    ELSE [books |-> Append(bs, NewBook(args, newId)),
          result |-> Return(NewBook(args, newId))]

\* variant: description written whether supplied or not
UpdatedBookOverwrite(book, args) ==
  [book EXCEPT
     !.title = IF Truthy(args.title) THEN args.title ELSE book.title,
     !.description = args.description,
     !.isbn = IF Truthy(args.isbn) THEN args.isbn ELSE book.isbn,
     !.publisher =
        IF Truthy(args.publisher) THEN args.publisher ELSE book.publisher,
     !.genre = IF Truthy(args.genre) THEN args.genre ELSE book.genre,
     !.publishYear =
        IF Truthy(args.publishYear) THEN args.publishYear ELSE book.publishYear,
     !.authorName =
        IF Truthy(args.authorName) THEN args.authorName ELSE book.authorName,
     !.authorNationality =
        IF Truthy(args.authorNationality)
          THEN args.authorNationality ELSE book.authorNationality]

\* variant: the record is rebuilt without `...book`, so it has no id
UpdatedBookNoSpread(book, args) ==
  [id |-> undefined,
   title |-> IF Truthy(args.title) THEN args.title ELSE book.title,
   description |->
      IF Truthy(args.description) THEN args.description ELSE book.description,
   isbn |-> IF Truthy(args.isbn) THEN args.isbn ELSE book.isbn,
   publisher |->
      IF Truthy(args.publisher) THEN args.publisher ELSE book.publisher,
   genre |-> IF Truthy(args.genre) THEN args.genre ELSE book.genre,
   publishYear |->
      IF Truthy(args.publishYear) THEN args.publishYear ELSE book.publishYear,
   authorName |->
      IF Truthy(args.authorName) THEN args.authorName ELSE book.authorName,
   authorNationality |->
      IF Truthy(args.authorNationality)
        THEN args.authorNationality ELSE book.authorNationality]

\* { ...book, title: args.title ? args.title : book.title, ... }
UpdatedBook(book, args) ==
  [book EXCEPT
     !.title = IF Truthy(args.title) THEN args.title ELSE book.title,
     !.description =
        IF Truthy(args.description) THEN args.description ELSE book.description,
     !.isbn = IF Truthy(args.isbn) THEN args.isbn ELSE book.isbn,
     !.publisher =
        IF Truthy(args.publisher) THEN args.publisher ELSE book.publisher,
     !.genre = IF Truthy(args.genre) THEN args.genre ELSE book.genre,
     !.publishYear =
        IF Truthy(args.publishYear) THEN args.publishYear ELSE book.publishYear,
     !.authorName =
        IF Truthy(args.authorName) THEN args.authorName ELSE book.authorName,
     !.authorNationality =
        IF Truthy(args.authorNationality)
          THEN args.authorNationality ELSE book.authorNationality]

\* variant: the merged record is pushed at the end instead of written in place
updateBookMoveToEnd(bs, args) ==
  LET updatedBookIndex == findIndexById(bs, args.id) IN
  IF updatedBookIndex = -1
    THEN [books |-> bs, result |-> Return(null)]
    ELSE LET updatedBook == UpdatedBook(bs[updatedBookIndex + 1], args) IN
         [books |-> Append(splice1(bs, updatedBookIndex), updatedBook),
          result |-> Return(updatedBook)]

\* Mutation.updateBook
updateBook(bs, args) ==
  LET updatedBookIndex == findIndexById(bs, args.id) IN
  IF updatedBookIndex = -1
    THEN [books |-> bs, result |-> Return(null)]
    ELSE LET updatedBook == UpdatedBook(bs[updatedBookIndex + 1], args) IN
         [books |-> setAt(bs, updatedBookIndex, updatedBook),
          result |-> Return(updatedBook)]

\* variant: no `=== -1` return, so splice(-1, 1) takes the last element
deleteBookNoGuard(bs, args) ==
  LET deletedBookIndex == findIndexById(bs, args.id)
      at == IF deletedBookIndex = -1 THEN Len(bs) - 1 ELSE deletedBookIndex
  IN
  IF Len(bs) = 0
    THEN [books |-> bs, result |-> Return(undefined)]
    ELSE [books |-> splice1(bs, at), result |-> Return(bs[at + 1])]

\* variant: removal by filtering on the title of the record found
deleteBookByTitle(bs, args) ==
  LET deletedBookIndex == findIndexById(bs, args.id) IN
  IF deletedBookIndex = -1
    THEN [books |-> bs, result |-> Return(null)]
    ELSE [books |->
            SelectSeq(bs, LAMBDA b : b.title # bs[deletedBookIndex + 1].title),
          result |-> Return(bs[deletedBookIndex + 1])]

\* Mutation.deleteBook
deleteBook(bs, args) ==
  LET deletedBookIndex == findIndexById(bs, args.id) IN
  IF deletedBookIndex = -1
    THEN [books |-> bs, result |-> Return(null)]
    ELSE [books |-> splice1(bs, deletedBookIndex),
          result |-> Return(bs[deletedBookIndex + 1])]

----------------------------------------------------------------------------
(* Arguments the clients send *)

\* ids a client may name: every id a record can have, and one no record has
OpIds == SeedIds \cup UuidPool \cup {Str("no-such-id")}

\* addBook arguments: all fields supplied
AddFull(title) ==
  [title |-> title,
   description |-> Str("a description"),
   isbn |-> Str("978-0000000000"),
   publisher |-> Str("a publisher"),
   genre |-> Str("MYSTERY"),
   publishYear |-> Num(2020),
   authorName |-> Str("an author"),
   authorNationality |-> Str("a nationality")]

\* addBook arguments: required fields only, the optional ones left out, null
\* or falsy
AddSparse(title) ==
  [title |-> title,
   description |-> undefined,
   isbn |-> null,
   publisher |-> Str(""),
   genre |-> Str("NONE"),
   publishYear |-> Num(0),
   authorName |-> Str("an author"),
   authorNationality |-> undefined]

AddTitles == {Str("City of Glass"), Str("X")}

AddArgs == {AddFull(t) : t \in AddTitles} \cup {AddSparse(t) : t \in AddTitles}

\* updateBook arguments other than id and title: none supplied
UpdNone ==
  [description |-> undefined, isbn |-> undefined, publisher |-> undefined,
   genre |-> undefined, publishYear |-> undefined, authorName |-> undefined,
   authorNationality |-> undefined]

\* ... all supplied and truthy
UpdAll ==
  [description |-> Str("a description"), isbn |-> Str("978-0000000000"),
   publisher |-> Str("a publisher"), genre |-> Str("MYSTERY"),
   publishYear |-> Num(2020), authorName |-> Str("an author"),
   authorNationality |-> Str("a nationality")]

\* ... all supplied and falsy
UpdFalsy ==
  [description |-> Str(""), isbn |-> null, publisher |-> Str(""),
   genre |-> null, publishYear |-> Num(0), authorName |-> Str(""),
   authorNationality |-> null]

UpdTitles == {undefined, Str(""), Str("X"), Str("City of Glass")}

UpdArgs(id, title, rest) ==
  [id |-> id,
   title |-> title,
   description |-> rest.description,
   isbn |-> rest.isbn,
   publisher |-> rest.publisher,
   genre |-> rest.genre,
   publishYear |-> rest.publishYear,
   authorName |-> rest.authorName,
   authorNationality |-> rest.authorNationality]

UpdateArgs ==
  {UpdArgs(id, t, r) : id \in OpIds, t \in UpdTitles, r \in {UpdNone, UpdAll}}
    \cup {UpdArgs(id, undefined, UpdFalsy) : id \in OpIds}

\* updateBook arguments with every field varied on its own: left out, null,
\* falsy, truthy
StrChoices == {undefined, null, Str(""), Str("Y")}
NumChoices == {undefined, null, Num(0), Num(1999)}
GenreChoices == {undefined, null, Str("ROMANCE")}

AllUpdateArgs ==
  [id : SeedIds \cup {Str("no-such-id")},
   title : StrChoices,
   description : StrChoices,
   isbn : StrChoices,
   publisher : StrChoices,
   genre : GenreChoices,
   publishYear : NumChoices,
   authorName : StrChoices,
   authorNationality : StrChoices]

----------------------------------------------------------------------------
(* The store as a state machine: one action per resolver invocation *)

Init ==
  /\ books = SeedBooks
  /\ issued = {}
  /\ call = [op |-> "start", args |-> [id |-> undefined]]
  /\ result = Return(undefined)
  /\ before = SeedBooks

Invoke(op, args, out) ==
  /\ call' = [op |-> op, args |-> args]
  /\ before' = books
  /\ books' = out.books
  /\ result' = out.result

GetBook ==
  \E id \in OpIds \cup {null} :
    /\ Invoke("getBook", [id |-> id], 
              [books |-> books, result |-> Return(getBook(books, [id |-> id]))])
    /\ UNCHANGED issued

\* newId is what uuid() returns if the resolver gets to call it: uuid() is
\* called only when addBook does not throw
AddBook ==
  \E args \in AddArgs, newId \in UuidPool :
    LET out == addBook(books, args, newId) IN
    /\ Invoke("addBook", args, out)
    /\ IF out.result.threw
         THEN issued' = issued
         ELSE /\ Cardinality(issued) < MaxUuid
              /\ newId \in uuid(issued)
              /\ issued' = issued \cup {newId}

UpdateBookWith(args) ==
  /\ Invoke("updateBook", args, updateBook(books, args))
  /\ UNCHANGED issued

UpdateBook == \E args \in UpdateArgs : UpdateBookWith(args)

DeleteBook ==
  \E id \in OpIds :
    /\ Invoke("deleteBook", [id |-> id], deleteBook(books, [id |-> id]))
    /\ UNCHANGED issued

Next == GetBook \/ AddBook \/ UpdateBook \/ DeleteBook

Spec == Init /\ [][Next]_vars

(* One updateBook invocation on the seeded store, its arguments drawn from *)
(* AllUpdateArgs                                                           *)

InitUpdate ==
  /\ books = SeedBooks
  /\ issued = {}
  /\ call \in [op : {"pending"}, args : AllUpdateArgs]
  /\ result = Return(undefined)
  /\ before = SeedBooks

UpdatePending ==
  /\ call.op = "pending"
  /\ UpdateBookWith(call.args)

NextUpdate == UpdatePending

SpecUpdate == InitUpdate /\ [][NextUpdate]_vars

----------------------------------------------------------------------------
(* Vocabulary of the properties *)

HasId(bs, id) == \E i \in 1..Len(bs) : bs[i].id = id

HasTitle(bs, title) == \E i \in 1..Len(bs) : bs[i].title = title

\* position (1-based) of the first record with the id
Pos(bs, id) ==
  CHOOSE i \in 1..Len(bs) :
    bs[i].id = id /\ \A j \in 1..(i - 1) : bs[j].id # id

IdsOf(bs) == [i \in 1..Len(bs) |-> bs[i].id]

NoDupIds(bs) ==
  \A i, j \in 1..Len(bs) : bs[i].id = bs[j].id => i = j

TitlesUnique(bs) ==
  \A i, j \in 1..Len(bs) : bs[i].title = bs[j].title => i = j

\* the sequence without its i-th element
Without(sq, i) == [j \in 1..(Len(sq) - 1) |-> IF j < i THEN sq[j] ELSE sq[j + 1]]

\* argument values that count as "not supplied" for updateBook
Falsy == {undefined, null, Str(""), Num(0)}

Absent == {undefined, null}

----------------------------------------------------------------------------
(* Properties *)

\* C1: addBook with a title some stored record has throws BAD_USER_INPUT and
\* leaves the store exactly as it was.
C1_DuplicateTitleRejected ==
  (call.op = "addBook" /\ HasTitle(before, call.args.title))
    => /\ result = Throw("BAD_USER_INPUT")
       /\ books = before

C1_Witness ==
  /\ call.op = "addBook"
  /\ HasTitle(before, call.args.title)
  /\ result.threw
  /\ Len(before) >= 2

\* C2: addBook with a title no stored record has succeeds: the count grows by
\* one, the new record is last, the earlier records are untouched, and
\* getBook on the returned id yields a record whose non-id fields are the
\* arguments and whose author is {authorName, authorNationality}.
C2_AddAppends ==
  (call.op = "addBook" /\ ~HasTitle(before, call.args.title))
    => /\ ~result.threw
       /\ getBooksCount(books) = getBooksCount(before) + 1
       /\ SubSeq(books, 1, Len(before)) = before
       /\ books[Len(books)] = result.value
       /\ LET got == getBook(books, [id |-> result.value.id]) IN
            /\ got # undefined
            /\ \A f \in Fields : got[f] = call.args[f]
            /\ author(got) = [name |-> call.args.authorName,
                              nationality |-> call.args.authorNationality]

C2_Witness ==
  /\ call.op = "addBook"
  /\ ~result.threw
  /\ Len(before) >= 1
  /\ Len(books) = Len(before) + 1
  /\ call.args.isbn = null
  /\ call.args.description = undefined

\* C3: getBook, updateBook and deleteBook on an id no record has return
\* null/undefined, throw nothing and leave the store unchanged.
C3_NotFoundIsNull ==
  (call.op \in {"getBook", "updateBook", "deleteBook"}
     /\ ~HasId(before, call.args.id))
    => /\ ~result.threw
       /\ result.value \in Absent
       /\ books = before

C3_Witness ==
  /\ call.op = "updateBook"
  /\ ~HasId(before, call.args.id)
  /\ call.args.title = Str("X")
  /\ call.args.publisher = Str("a publisher")
  /\ Len(before) >= 2
  /\ result = Return(null)

\* C4: deleteBook on a stored id returns the record that had the id, lowers
\* the count by one, and a getBook on that id right afterwards finds nothing.
C4_DeleteRemoves ==
  (call.op = "deleteBook" /\ HasId(before, call.args.id))
    => /\ ~result.threw
       /\ result.value = before[Pos(before, call.args.id)]
       /\ result.value.id = call.args.id
       /\ getBooksCount(books) = getBooksCount(before) - 1
       /\ getBook(books, [id |-> call.args.id]) = undefined

C4_Witness ==
  /\ call.op = "deleteBook"
  /\ HasId(before, call.args.id)
  /\ Len(before) = 3
  /\ Pos(before, call.args.id) = 1
  /\ Len(books) = 2

\* C5: updateBook with only id and a non-empty title on a stored id sets the
\* title and leaves the id and the seven other fields as they were.
C5_TitleOnlyUpdate ==
  (/\ call.op = "updateBook"
   /\ HasId(before, call.args.id)
   /\ call.args.title.type = "string"
   /\ call.args.title.val # ""
   /\ \A f \in Fields \ {"title"} : call.args[f] = undefined)
    => LET i == Pos(before, call.args.id) IN
       /\ Len(books) = Len(before)
       /\ books[i].title = call.args.title
       /\ books[i].id = before[i].id
       /\ \A f \in Fields \ {"title"} : books[i][f] = before[i][f]

C5_Witness ==
  /\ call.op = "updateBook"
  /\ HasId(before, call.args.id)
  /\ call.args.title = Str("X")
  /\ \A f \in Fields \ {"title"} : call.args[f] = undefined
  /\ before[Pos(before, call.args.id)].title # Str("X")
  /\ books[Pos(before, call.args.id)].title = Str("X")

\* C6: with uuid() never repeating: no two stored records share an id, no
\* step changes the id of a stored record, and a record that is added gets an
\* id that no record, present or deleted, ever had.
C6_IdStep ==
  LET old == IdsOf(books)
      new == IdsOf(books')
  IN
  /\ NoDupIds(books')
  /\ \/ new = old
     \/ \E i \in 1..Len(old) : new = Without(old, i)
     \/ /\ Len(new) = Len(old) + 1
        /\ SubSeq(new, 1, Len(old)) = old
        /\ new[Len(new)] \notin SeedIds \cup issued

C6_IdsUniqueImmutableNeverReused == [][C6_IdStep]_vars

C6_Witness ==
  /\ call.op = "addBook"
  /\ ~result.threw
  /\ ~HasId(before, SeedBooks[1].id)
  /\ \E i \in 1..Len(before) : before[i].title = Str("X")
  /\ NoDupIds(books)

\* C7 as stated: after any sequence of addBook, updateBook and deleteBook no
\* two stored records have the same title.
C7_TitlesAlwaysUnique == TitlesUnique(books)

\* C7 amended: title uniqueness is enforced on create only. addBook,
\* deleteBook and getBook never turn a store with unique titles into one with
\* a duplicate; updateBook does not check the title.
C7_UniqueOnCreate ==
  (call.op \in {"addBook", "deleteBook", "getBook"} /\ TitlesUnique(before))
    => TitlesUnique(books)

C7_Witness ==
  /\ call.op = "addBook"
  /\ ~result.threw
  /\ TitlesUnique(before)
  /\ Len(books) = 3
  /\ TitlesUnique(books)

\* C8: updateBook on a stored id, field by field: the stored value becomes
\* the argument when the argument is supplied and truthy, and stays what it
\* was otherwise; "" and 0 overwrite nothing.
C8_FieldwiseMerge ==
  (call.op = "updateBook" /\ HasId(before, call.args.id))
    => LET i == Pos(before, call.args.id) IN
       \A f \in Fields :
         IF call.args[f] \notin Falsy
           THEN books[i][f] = call.args[f]
           ELSE books[i][f] = before[i][f]

C8_Witness ==
  /\ call.op = "updateBook"
  /\ HasId(before, call.args.id)
  /\ call.args.title = Str("")
  /\ call.args.publishYear = Num(0)
  /\ call.args.isbn = Str("Y")
  /\ call.args.description = null
  /\ call.args.authorName = undefined
  /\ LET i == Pos(before, call.args.id) IN
       /\ books[i].isbn = Str("Y")
       /\ before[i].isbn = undefined
       /\ books[i].publishYear = Num(1899)

\* C9: updateBook on a stored id writes the merged record at the position
\* the record had and returns it; length, order and every other record stay.
C9_UpdateInPlace ==
  (call.op = "updateBook" /\ HasId(before, call.args.id))
    => LET i == Pos(before, call.args.id) IN
       /\ ~result.threw
       /\ Len(books) = Len(before)
       /\ books[i] = result.value
       /\ books[i].id = call.args.id
       /\ IdsOf(books) = IdsOf(before)
       /\ \A j \in 1..Len(before) : j # i => books[j] = before[j]

C9_Witness ==
  /\ call.op = "updateBook"
  /\ HasId(before, call.args.id)
  /\ Len(before) = 3
  /\ Pos(before, call.args.id) = 2
  /\ books[2] # before[2]

\* C10: deleteBook on a stored id removes exactly the record with that id;
\* the others stay, unchanged and in the order they had, those behind the
\* removed one moved down by one position.
C10_DeleteFrame ==
  (call.op = "deleteBook" /\ HasId(before, call.args.id))
    => LET i == Pos(before, call.args.id) IN
       /\ Len(books) = Len(before) - 1
       /\ \A j \in 1..Len(books) :
            books[j] = IF j < i THEN before[j] ELSE before[j + 1]
       /\ before[i].id = call.args.id

C10_Witness ==
  /\ call.op = "deleteBook"
  /\ HasId(before, call.args.id)
  /\ Len(before) = 3
  /\ Pos(before, call.args.id) = 2
  /\ books = <<before[1], before[3]>>

====
